---- MODULE Spec2Model ----
(***************************************************************************)
(* LambdaCore: the value model, the parse-tree to IR converter             *)
(* (lcore_parse), the Environment and the stack-machine evaluator          *)
(* (lcore_interpret) of src/src/lcore.rs, with the builtins of             *)
(* src/src/builtin.rs that the evaluator dispatches to.                    *)
(*                                                                         *)
(* The evaluator is recursive in the source (a user-defined call and the   *)
(* `loop` builtin re-enter lcore_interpret).  The recursion is modelled by *)
(* an explicit stack of evaluator activations: each activation holds the   *)
(* local state of one lcore_interpret invocation (its token queue `stack`  *)
(* and its frame stack `arrays`) and what its caller does on its return.   *)
(***************************************************************************)
EXTENDS Integers, Sequences, FiniteSets, TLC

VARIABLES
    pid,      \* index of the program (parse tree) being run
    status,   \* "parse" | "running" | "done" | "exit" | "panic" | "overflow"
              \* | "raising" (an Err is on its way up) | "error"
    fault,    \* why the process ended abnormally ("" while it has not)
    scopes,   \* Environment.scopes : Vec<SymTab>
    acts,     \* the live lcore_interpret invocations, outermost first
    result,   \* the Value returned by the outermost lcore_interpret
    lastTop,  \* history: last value written to the outermost frame of the outermost invocation
    lastCall, \* history: the last user-defined call dispatched
    lastLookup, \* history: the last identifier resolved against the Environment
    returned, \* history: number of user-defined calls that have returned
    lastNative, \* history: the last native callable dispatched and its outcome
    lastLoop  \* history: the iterations of the last loop entered

vars == <<pid, status, fault, scopes, acts, result, lastTop, lastCall,
          lastLookup, returned, lastNative, lastLoop>>

(***************************************************************************)
(* Bounds                                                                  *)
(***************************************************************************)
\* Deepest nesting of live lcore_interpret invocations before the host
\* call stack is taken to be exhausted.
MaxCallDepth == 4

(***************************************************************************)
(* Value (lcore.rs:22-43)                                                  *)
(***************************************************************************)
Null          == [k |-> "Null", v |-> 0]
Identifier(s) == [k |-> "Identifier", v |-> s]
Boolean(b)    == [k |-> "Boolean", v |-> b]
IntV(i)       == [k |-> "Int", v |-> i]
Float(lex)    == [k |-> "Float", v |-> lex]
String(s)     == [k |-> "String", v |-> s]
Array(a)      == [k |-> "Array", v |-> a]
Func(name)    == [k |-> "Func", v |-> name]
Quote(val)    == [k |-> "Quote", v |-> val]
Dict(pairs)   == [k |-> "Dict", v |-> pairs]
OpenFunc      == [k |-> "OpenFunc", v |-> 0]
CloseFunc     == [k |-> "CloseFunc", v |-> 0]
BackTick      == [k |-> "BackTick", v |-> 0]
Comma         == [k |-> "Comma", v |-> 0]

\* The absent value: Option::None of Environment::get, and the unset
\* history variables.
None == [k |-> "None", v |-> 0]

(***************************************************************************)
(* Environment (lcore.rs:108-151)                                          *)
(***************************************************************************)
\* SymTab::new()
EmptySymTab == [n \in {} |-> Null]

\* HashMap::insert
SymTabInsert(tab, key, value) ==
    [n \in (DOMAIN tab) \cup {key} |-> IF n = key THEN value ELSE tab[n]]

\* Environment::push
EnvPush(sc) == Append(sc, EmptySymTab)

\* Environment::pop that removes nothing
EnvPopNothing(sc) == sc

\* Environment::pop (the caller has checked that a scope exists)
EnvPop(sc) == SubSeq(sc, 1, Len(sc) - 1)

\* Environment::insert : writes the last scope
EnvInsertOutermost(sc, key, value) ==
    [sc EXCEPT ![1] = SymTabInsert(sc[1], key, value)]

EnvInsert(sc, key, value) ==
    [sc EXCEPT ![Len(sc)] = SymTabInsert(sc[Len(sc)], key, value)]

\* The loop `for scope in self.scopes.iter().rev()` of contains_key and get,
\* started at scope i and walking towards scope 1; the index of the first
\* scope that holds the name, 0 when none does.
RECURSIVE EnvFind(_, _, _)
EnvFind(sc, name, i) ==
    IF i = 0 THEN 0
    ELSE IF name \in DOMAIN sc[i] THEN i
    ELSE EnvFind(sc, name, i - 1)

\* Environment::contains_key
EnvContainsKey(sc, name) == EnvFind(sc, name, Len(sc)) # 0

\* Environment::get walking outermost to innermost
RECURSIVE EnvFindFromOutermost(_, _, _)
EnvFindFromOutermost(sc, name, i) ==
    IF i > Len(sc) THEN 0
    ELSE IF name \in DOMAIN sc[i] THEN i
    ELSE EnvFindFromOutermost(sc, name, i + 1)

EnvGetOutermostFirst(sc, name) ==
    LET i == EnvFindFromOutermost(sc, name, 1)
    IN  IF i = 0 THEN None ELSE sc[i][name]

\* Environment::get consulting only the innermost and the global scope
EnvGetOwnThenGlobal(sc, name) ==
    IF name \in DOMAIN sc[Len(sc)] THEN sc[Len(sc)][name]
    ELSE IF name \in DOMAIN sc[1] THEN sc[1][name]
    ELSE None

\* Environment::get
EnvGet(sc, name) ==
    LET i == EnvFind(sc, name, Len(sc))
    IN  IF i = 0 THEN None ELSE sc[i][name]

(***************************************************************************)
(* Parse tree nodes (the pest Pair): rule, matched text, children.         *)
(* The text of a Number is its sequence of characters.                     *)
(***************************************************************************)
Node(rule, str, ch) == [rule |-> rule, str |-> str, ch |-> ch]

\* i64::from_str on a (possibly signed) decimal lexeme
DigitVal(c) ==
    CASE c = "0" -> 0 [] c = "1" -> 1 [] c = "2" -> 2 [] c = "3" -> 3
      [] c = "4" -> 4 [] c = "5" -> 5 [] c = "6" -> 6 [] c = "7" -> 7
      [] c = "8" -> 8 [] c = "9" -> 9

RECURSIVE DigitsVal(_)
DigitsVal(cs) ==
    IF cs = <<>> THEN 0
    ELSE 10 * DigitsVal(SubSeq(cs, 1, Len(cs) - 1)) + DigitVal(cs[Len(cs)])

IntFromStr(cs) ==
    IF cs[1] = "-" THEN 0 - DigitsVal(Tail(cs))
    ELSE IF cs[1] = "+" THEN DigitsVal(Tail(cs))
    ELSE DigitsVal(cs)

\* f64::from_str on a decimal lexeme with a point: mantissa and number of
\* fractional digits
DotPos(cs) == CHOOSE i \in 1..Len(cs) : cs[i] = "."

FloatFromStr(cs) ==
    LET p == DotPos(cs)
    IN  [m |-> IntFromStr(SubSeq(cs, 1, p - 1) \o SubSeq(cs, p + 1, Len(cs))),
         e |-> Len(cs) - p]

\* node.as_str().contains(".")
ContainsDot(cs) == \E i \in 1..Len(cs) : cs[i] = "."

(***************************************************************************)
(* lcore_parse (lcore.rs:166-257).  The result is the tokens appended to   *)
(* the queue and whether every `assert!(quote_stack.len() == 1)` held.     *)
(***************************************************************************)
RECURSIVE lcore_parse(_)
RECURSIVE ParseChildren(_)

\* The children loop converting its first rule only
ParseFirstChild(ch) ==
    IF ch = <<>> THEN [toks |-> <<>>, ok |-> TRUE]
    ELSE lcore_parse(Head(ch))

\* `for rule in ... { lcore_parse(rule, stack) }`
ParseChildren(ch) ==
    IF ch = <<>> THEN [toks |-> <<>>, ok |-> TRUE]
    ELSE LET h == lcore_parse(Head(ch))
             t == ParseChildren(Tail(ch))
         IN  IF ~h.ok THEN h
             ELSE [toks |-> h.toks \o t.toks, ok |-> t.ok]

lcore_parse(node) ==
    CASE node.rule = "Program" -> ParseChildren(node.ch)
      [] node.rule = "Function" ->
            LET rest == ParseChildren(Tail(node.ch))
            IN  [toks |-> <<OpenFunc, Identifier(Head(node.ch).str)>>
                          \o rest.toks \o <<CloseFunc>>,
                 ok |-> rest.ok]
      [] node.rule = "Array" ->
            LET sub == ParseChildren(node.ch)
            IN  [toks |-> <<Array(sub.toks)>>, ok |-> sub.ok]
      [] node.rule = "Number" ->
            [toks |-> IF ContainsDot(node.str)
                      THEN <<Float(FloatFromStr(node.str))>>
                      ELSE <<IntV(IntFromStr(node.str))>>,
             ok |-> TRUE]
      [] node.rule = "Quote" ->
            LET sub == ParseChildren(node.ch)
            IN  IF ~sub.ok \/ Len(sub.toks) # 1
                THEN [toks |-> <<>>, ok |-> FALSE]
                ELSE [toks |-> <<Quote(sub.toks[Len(sub.toks)])>>, ok |-> TRUE]
      [] node.rule = "BackTick" -> [toks |-> <<BackTick>>, ok |-> TRUE]
      [] node.rule = "Comma" -> [toks |-> <<Comma>>, ok |-> TRUE]
      [] node.rule = "Identifier" ->
            [toks |-> <<Identifier(node.str)>>, ok |-> TRUE]
      [] node.rule = "String" -> [toks |-> <<String(node.str)>>, ok |-> TRUE]
      [] node.rule = "Boolean" ->
            [toks |-> <<Boolean(node.str = "true")>>, ok |-> TRUE]
      [] node.rule = "Null" -> [toks |-> <<Null>>, ok |-> TRUE]
      [] OTHER -> [toks |-> <<>>, ok |-> TRUE]

(***************************************************************************)
(* Builtins (builtin.rs).  A native callable returns an outcome: the       *)
(* Value of Ok(..), or the way the process ends (a panic of expect /       *)
(* unwrap / unreachable!, or exit), together with the Environment it       *)
(* leaves.  builtin.rs declares its callables as returning                 *)
(* Result<Value, LCoreError> while lcore.rs:31,396 takes the return of a   *)
(* callable as a Value: the value of Ok(v) is taken to be v, and an        *)
(* Err(e) starts the propagation of e towards the callers of the           *)
(* evaluator (status "raising").  Int sums stay far inside i64 here.       *)
(***************************************************************************)
Ok(val, sc)      == [tag |-> "ok", val |-> val, sc |-> sc, fault |-> ""]
Err(kind, sc)    == [tag |-> "raising", val |-> Null, sc |-> sc, fault |-> kind]
Panic(why, sc)   == [tag |-> "panic", val |-> Null, sc |-> sc, fault |-> why]
Exit(why, sc)    == [tag |-> "exit", val |-> Null, sc |-> sc, fault |-> why]

\* Float values: a decimal lexeme d1..dk.f1..fm is kept as mantissa and
\* number of fractional digits.
FloatAdd(a, b) ==
    LET e == IF a.e > b.e THEN a.e ELSE b.e
    IN  [m |-> a.m * (10 ^ (e - a.e)) + b.m * (10 ^ (e - b.e)), e |-> e]

\* lcore_print / lcore_prin
lcore_print(args, sc) ==
    IF Len(args) > 1 THEN Ok(Null, sc)
    ELSE IF Len(args) = 0 THEN Panic("UnwrapNone", sc)
    ELSE Ok(Null, sc)

\* lcore_add
lcore_add(args, sc) ==
    IF Len(args) < 2 THEN Panic("ExpectNone", sc)
    ELSE IF args[1].k = "Int" /\ args[2].k = "Int"
         THEN Ok(IntV(args[1].v + args[2].v), sc)
    ELSE IF args[1].k = "Float" /\ args[2].k = "Float"
         THEN Ok(Float(FloatAdd(args[1].v, args[2].v)), sc)
    ELSE Panic("Unreachable", sc)

\* lcore_quit
lcore_quit(args, sc) == Exit("Quit", sc)

\* The binding of set and defn written into the global scope
BindNameGlobal(var, value, sc) ==
    IF var.k = "Identifier" THEN Ok(Null, EnvInsertOutermost(sc, var.v, value))
    ELSE IF var.k = "Quote"
         THEN IF var.v.k = "Identifier"
              THEN Ok(Null, EnvInsertOutermost(sc, var.v.v, value))
              ELSE Panic("Unreachable", sc)
    ELSE Ok(Null, sc)

\* The `match var` of lcore_set and the `match name` of lcore_defn
BindName(var, value, sc) ==
    IF var.k = "Identifier" THEN Ok(Null, EnvInsert(sc, var.v, value))
    ELSE IF var.k = "Quote"
         THEN IF var.v.k = "Identifier"
              THEN Ok(Null, EnvInsert(sc, var.v.v, value))
              ELSE Panic("Unreachable", sc)
    ELSE Ok(Null, sc)

\* lcore_set writing into a scope of its own
lcore_setInNewScope(args, sc) ==
    IF Len(args) < 2 THEN Panic("ExpectNone", sc)
    ELSE BindName(args[1], args[2], EnvPush(sc))

\* lcore_set
lcore_set(args, sc) ==
    IF Len(args) < 2 THEN Panic("ExpectNone", sc)
    ELSE BindName(args[1], args[2], sc)

\* lcore_defn
lcore_defn(args, sc) ==
    IF Len(args) < 3 THEN Panic("ExpectNone", sc)
    ELSE IF args[3].k # "Quote" THEN Panic("Unreachable", sc)
    ELSE BindName(args[1], Array(<<args[2], args[3].v>>), sc)

\* lcore_to_str
lcore_to_str(args, sc) == Ok(String("LambdaCore String!"), sc)

\* The part of lcore_loop before its first iteration: the three `expect`s
\* and the bounds of `for i in 0..*iters.as_int()`.  "iterate" means the
\* loop has at least one iteration to run.
LoopEntry(args, sc) ==
    IF Len(args) < 3 THEN Panic("ExpectNone", sc)
    ELSE IF args[2].k # "Int" THEN Panic("Unreachable", sc)
    ELSE IF args[2].v <= 0 THEN Ok(Null, sc)
    ELSE [tag |-> "iterate", val |-> Null, sc |-> sc, fault |-> ""]

\* The head of the loop body counting its iterations from 1
LoopIterFromOne(qv, body, i, sc) ==
    IF body.k # "Quote" THEN Panic("Unreachable", sc)
    ELSE IF body.v.k # "Array" THEN Panic("Unreachable", sc)
    ELSE IF qv.k # "Quote" THEN Panic("Unreachable", sc)
    ELSE IF qv.v.k = "Identifier"
         THEN Ok(Null, EnvInsert(sc, qv.v.v, IntV(i + 1)))
    ELSE Ok(Null, sc)

\* One pass through the head of the loop body of lcore_loop for iteration
\* i: clone the body, bind the iteration variable.
LoopIter(qv, body, i, sc) ==
    IF body.k # "Quote" THEN Panic("Unreachable", sc)
    ELSE IF body.v.k # "Array" THEN Panic("Unreachable", sc)
    ELSE IF qv.k # "Quote" THEN Panic("Unreachable", sc)
    ELSE IF qv.v.k = "Identifier" THEN Ok(Null, EnvInsert(sc, qv.v.v, IntV(i)))
    ELSE Ok(Null, sc)

\* Rust's `%` on i64: the remainder has the sign of the dividend
RustRem(a, b) == IF a >= 0 THEN a % b ELSE 0 - ((0 - a) % b)

\* The index computation of lcore_get without the `if idx < 0` step
WrapIndexNoFix(index, len) == RustRem(index, len)

\* `let mut idx = *index % len; if idx < 0 { idx += len }`
\* (builtin.rs:329-333)
WrapIndex(index, len) ==
    LET idx == RustRem(index, len)
    IN  IF idx < 0 THEN idx + len ELSE idx

\* HashMap<Value, Value>: an entry list without duplicate keys
RECURSIVE DictFind(_, _, _)
DictFind(pairs, key, i) ==
    IF i > Len(pairs) THEN 0
    ELSE IF pairs[i][1] = key THEN i
    ELSE DictFind(pairs, key, i + 1)

\* HashMap::get
DictGet(pairs, key) ==
    LET i == DictFind(pairs, key, 1)
    IN  IF i = 0 THEN None ELSE pairs[i][2]

\* HashMap::insert
DictInsert(pairs, key, value) ==
    LET i == DictFind(pairs, key, 1)
    IN  IF i = 0 THEN Append(pairs, <<key, value>>)
        ELSE [pairs EXCEPT ![i] = <<key, value>>]

\* lcore_get
lcore_get(args, sc) ==
    IF Len(args) < 2 THEN Panic("ExpectNone", sc)
    ELSE LET obj == args[1]
             key == IF args[2].k = "Quote" THEN args[2].v ELSE args[2]
         IN  CASE obj.k = "Array" ->
                    IF key.k # "Int" THEN Err("ArgumentError", sc)
                    ELSE IF key.v > Len(obj.v) THEN Err("ArgumentError", sc)
                    ELSE IF Len(obj.v) = 0 THEN Panic("RemainderByZero", sc)
                    ELSE LET idx == WrapIndex(key.v, Len(obj.v))
                         IN  \* `v[idx as usize]` is a checked index
                             IF idx < 0 \/ idx >= Len(obj.v)
                             THEN Panic("IndexOutOfRange", sc)
                             ELSE Ok(obj.v[idx + 1], sc)
               [] obj.k = "Dict" ->
                    IF key.k \notin {"Identifier", "String", "Int", "Float",
                                     "Boolean"}
                    THEN Panic("Unreachable", sc)
                    ELSE LET hk == IF key.k = "Identifier"
                                   THEN String(key.v) ELSE key
                         IN  IF DictGet(obj.v, hk) = None
                             THEN Panic("ExpectNone", sc)
                             ELSE Ok(DictGet(obj.v, hk), sc)
               [] obj.k = "String" ->
                    IF key.k = "Int" THEN Ok(Null, sc)
                    ELSE Panic("Unreachable", sc)
               [] OTHER -> Ok(Null, sc)

\* The `for i in 0..args.len() / 2` loop of lcore_dict on what is left of
\* the arguments
RECURSIVE DictFill(_, _)
DictFill(pairs, rest) ==
    IF Len(rest) < 2 THEN pairs
    ELSE LET key == rest[1]
             value == rest[2]
             next == IF key.k = "Quote"
                     THEN IF key.v.k = "Identifier"
                          THEN DictInsert(pairs, String(key.v.v), value)
                          ELSE pairs
                     ELSE DictInsert(pairs, key, value)
         IN  DictFill(next, SubSeq(rest, 3, Len(rest)))

\* lcore_dict
lcore_dict(args, sc) ==
    IF Len(args) % 2 # 0 THEN Err("ArgumentError", sc)
    ELSE Ok(Dict(DictFill(<<>>, args)), sc)

\* lcore_len
lcore_len(args, sc) ==
    IF args = <<>> THEN Err("ArgumentError", sc)
    ELSE CASE args[1].k \in {"Array", "Dict"} -> Ok(IntV(Len(args[1].v)), sc)
           [] args[1].k = "String" -> Ok(IntV(Len(args[1].v)), sc)
           [] args[1].k = "Quote" -> Ok(IntV(1), sc)
           [] OTHER -> Err("ArgumentError", sc)

\* The outcome of a step of lcore_swap inside the bound value
SwapOk(val)    == [tag |-> "ok", val |-> val, fault |-> ""]
SwapFail(tag, why) == [tag |-> tag, val |-> Null, fault |-> why]

\* The key a Dict is asked for by an indexer
SwapKey(indexer) ==
    IF indexer.k = "Identifier" THEN String(indexer.v) ELSE indexer

\* The `match current_obj` after the navigation loop of lcore_swap
\* (builtin.rs:538-571): the object with `value` stored at the indexer
SwapStore(obj, indexer, value) ==
    CASE obj.k = "Dict" ->
            LET i == DictFind(obj.v, SwapKey(indexer), 1)
            IN  IF i = 0 THEN SwapFail("panic", "UnwrapNone")
                ELSE SwapOk(Dict([obj.v EXCEPT ![i] = <<obj.v[i][1], value>>]))
      [] obj.k = "Array" ->
            IF indexer.k # "Int" THEN SwapFail("raising", "IndexError")
            ELSE IF indexer.v > Len(obj.v)
            THEN SwapFail("raising", "ArgumentError")
            ELSE IF Len(obj.v) = 0 THEN SwapFail("panic", "RemainderByZero")
            ELSE SwapOk(Array([obj.v EXCEPT
                                ![WrapIndex(indexer.v, Len(obj.v)) + 1] = value]))
      [] OTHER -> SwapFail("panic", "Unreachable")

\* The navigation loop `for i in 0..indexers.len() - 1` of lcore_swap
\* (builtin.rs:496-536) followed by the store: the object in which the
\* element the path leads to is `value`
RECURSIVE SwapPath(_, _, _)
SwapPath(obj, path, value) ==
    IF Len(path) = 1 THEN SwapStore(obj, path[1], value)
    ELSE LET indexer == path[1]
         IN  CASE obj.k = "Dict" ->
                    LET i == DictFind(obj.v, SwapKey(indexer), 1)
                    IN  IF i = 0 THEN SwapFail("panic", "UnwrapNone")
                        ELSE LET r == SwapPath(obj.v[i][2], Tail(path), value)
                             IN  IF r.tag # "ok" THEN r
                                 ELSE SwapOk(Dict([obj.v EXCEPT ![i] =
                                                   <<obj.v[i][1], r.val>>]))
               [] obj.k = "Array" ->
                    IF indexer.k # "Int" THEN SwapFail("raising", "IndexError")
                    ELSE IF indexer.v > Len(obj.v)
                    THEN SwapFail("raising", "ArgumentError")
                    ELSE IF Len(obj.v) = 0
                    THEN SwapFail("panic", "RemainderByZero")
                    ELSE LET idx == WrapIndex(indexer.v, Len(obj.v)) + 1
                             r == SwapPath(obj.v[idx], Tail(path), value)
                         IN  IF r.tag # "ok" THEN r
                             ELSE SwapOk(Array([obj.v EXCEPT ![idx] = r.val]))
               [] OTHER -> SwapFail("panic", "Unreachable")

\* A write that creates a binding in the innermost scope
EnvSetInnermost(sc, name, value) == EnvInsert(sc, name, value)

\* A write through the `&mut Value` of Environment::get (lcore.rs:143-150):
\* the binding found first from the innermost scope is the one changed
EnvSet(sc, name, value) ==
    [sc EXCEPT ![EnvFind(sc, name, Len(sc))][name] = value]

\* lcore_swap
lcore_swap(args, sc) ==
    IF args = <<>> THEN Panic("UnwrapNone", sc)
    ELSE IF args[1].k # "Quote" THEN Panic("Unreachable", sc)
    ELSE IF args[1].v.k # "Identifier" THEN Panic("Unreachable", sc)
    ELSE IF Len(args) < 3 THEN Panic("UnwrapNone", sc)
    ELSE LET obj_id == args[1].v.v
             index == args[2]
             value == args[3]
         IN  IF ~EnvContainsKey(sc, obj_id) THEN Ok(Null, sc)
             ELSE IF index.k # "Quote" THEN Panic("Unreachable", sc)
             ELSE IF index.v.k # "Array" THEN Panic("Unreachable", sc)
             ELSE IF index.v.v = <<>> THEN Panic("SubtractOverflow", sc)
             ELSE LET r == SwapPath(EnvGet(sc, obj_id), index.v.v, value)
                  IN  IF r.tag = "ok"
                      THEN Ok(Null, EnvSet(sc, obj_id, r.val))
                      ELSE [tag |-> r.tag, val |-> Null, sc |-> sc,
                            fault |-> r.fault]

\* The native callables that do not re-enter the evaluator
NativeCall(name, args, sc) ==
    CASE name \in {"print", "prin"} -> lcore_print(args, sc)
      [] name = "+" -> lcore_add(args, sc)
      [] name \in {"quit", "exit"} -> lcore_quit(args, sc)
      [] name = "set" -> lcore_set(args, sc)
      [] name = "defn" -> lcore_defn(args, sc)
      [] name = "to-str" -> lcore_to_str(args, sc)
      [] name = "loop" -> LoopEntry(args, sc)
      [] name = "get" -> lcore_get(args, sc)
      [] name = "dict" -> lcore_dict(args, sc)
      [] name = "len" -> lcore_len(args, sc)
      [] name = "swap" -> lcore_swap(args, sc)

\* import_builtins: the names installed in the global scope
BuiltinNames ==
    {"print", "prin", "+", "quit", "exit", "set", "loop", "defn", "to-str",
     "get", "dict", "len", "swap"}

Builtins == [n \in BuiltinNames |-> Func(n)]

(***************************************************************************)
(* User-defined call dispatch (lcore.rs:398-454)                           *)
(***************************************************************************)
\* The binding loop `while let Some(value) = v.pop()` (lcore.rs:409-424):
\* v is what is left of the argument Array, count the index into arg_names.
RECURSIVE BindArgs(_, _, _, _)
BindArgs(sc, arg_names, v, count) ==
    IF v = <<>> THEN Ok(Null, sc)
    ELSE IF count + 1 > Len(arg_names) THEN Panic("IndexOutOfRange", sc)
    ELSE IF arg_names[count + 1].k # "Quote" THEN Panic("Unreachable", sc)
    ELSE IF arg_names[count + 1].v.k # "Identifier"
         THEN Panic("Unreachable", sc)
    ELSE BindArgs(EnvInsert(sc, arg_names[count + 1].v.v, v[Len(v)]),
                  arg_names, SubSeq(v, 1, Len(v) - 1), count + 1)

\* Return of lcore_interpret taking the first collected value
ReturnFirstValue(arrays) ==
    LET last_array == arrays[Len(arrays)]
    IN  IF last_array = <<>> THEN None ELSE last_array[1]

\* The return of lcore_interpret (lcore.rs:512-517): None stands for the
\* failing `v.pop().unwrap()`.
ReturnValue(arrays) ==
    LET last_array == arrays[Len(arrays)]
    IN  IF last_array = <<>> THEN None ELSE last_array[Len(last_array)]

(***************************************************************************)
(* Evaluator activations                                                   *)
(***************************************************************************)
\* One live invocation of lcore_interpret: its `stack` (queue) and `arrays`,
\* and the caller it returns to: "top" (the host), "call" (the user-defined
\* call dispatch, lcore.rs:444) or "loop" (lcore_loop, builtin.rs:243) with
\* that loop's locals.  body is the value the queue was taken from (for a
\* loop the quoted body); sc0 is history: the Environment at the dispatch
\* of a user-defined call, before the scope of the call was pushed.
Activation(queue, kind, qv, body, i, n) ==
    [queue |-> queue, arrays |-> <<<<>>>>, kind |-> kind,
     qv |-> qv, body |-> body, i |-> i, n |-> n, sc0 |-> <<>>]

NAct == Len(acts)
Cur == acts[NAct]
Node0 == Head(Cur.queue)
TopFrame(a) == a.arrays[Len(a.arrays)]

\* A pop_front that takes two tokens off a queue that holds them
PopFrontTwice(a) ==
    [a EXCEPT !.queue = IF Len(@) >= 2 THEN Tail(Tail(@)) ELSE Tail(@)]

\* `while let Some(node) = stack.pop_front()`
PopFront(a) == [a EXCEPT !.queue = Tail(@)]

\* A push that overwrites the last element of the frame
PushValueOverLast(a, value) ==
    [a EXCEPT !.arrays[Len(a.arrays)] =
        IF @ = <<>> THEN <<value>> ELSE [@ EXCEPT ![Len(@)] = value]]

\* `arrays[length - 1].push(value)`
PushValue(a, value) ==
    [a EXCEPT !.arrays[Len(a.arrays)] = Append(@, value)]

\* A replacement of the last element that appends instead
ReplaceLastByPush(a, node) ==
    [a EXCEPT !.arrays[Len(a.arrays)] = Append(@, node)]

\* `*last = node` (lcore.rs:316): the last element of the top frame becomes
\* the node
ReplaceLast(a, node) ==
    [a EXCEPT !.arrays[Len(a.arrays)] = [@ EXCEPT ![Len(@)] = node]]

\* Is the top frame of activation number i the outermost frame of the run?
IsOutermost(i, a) == i = 1 /\ Len(a.arrays) = 1

Stepping(kinds) ==
    /\ status = "running"
    /\ Cur.queue # <<>>
    /\ Node0.k \in kinds

\* The process ends here: by exit (crash, quit) or by a panic.
Halt(st, why, sc, newacts) ==
    /\ status' = st
    /\ fault' = why
    /\ scopes' = sc
    /\ acts' = newacts
    /\ UNCHANGED <<pid, result, lastTop, lastCall, lastLookup, returned>>

(***************************************************************************)
(* lcore_interpret (lcore.rs:263-518), one action per token handler        *)
(***************************************************************************)
\* Int, Float, String, Boolean, Null (lcore.rs:277-299, 361-375)
EvalScalar ==
    /\ Stepping({"Int", "Float", "String", "Boolean", "Null"})
    /\ acts' = [acts EXCEPT ![NAct] = PushValue(PopFront(Cur), Node0)]
    /\ lastTop' = IF IsOutermost(NAct, Cur) THEN Node0 ELSE lastTop
    /\ UNCHANGED <<pid, status, fault, scopes, result, lastCall, lastLookup,
                   returned>>
    /\ UNCHANGED <<lastNative, lastLoop>>

\* Array, Quote, BackTick, Comma (lcore.rs:484-504)
EvalMaterialized ==
    /\ Stepping({"Array", "Quote", "BackTick", "Comma"})
    /\ acts' = [acts EXCEPT ![NAct] = PushValue(PopFront(Cur), Node0)]
    /\ lastTop' = IF IsOutermost(NAct, Cur) THEN Node0 ELSE lastTop
    /\ UNCHANGED <<pid, status, fault, scopes, result, lastCall, lastLookup,
                   returned>>
    /\ UNCHANGED <<lastNative, lastLoop>>

\* Identifier (lcore.rs:301-359)
EvalIdentifier ==
    /\ Stepping({"Identifier"})
    /\ UNCHANGED <<lastNative, lastLoop>>
    /\ LET v == TopFrame(Cur)
           key == Node0.v
           a1 == PopFront(Cur)
       IN  IF v # <<>> /\ v[Len(v)].k = "Quote"
           THEN \* `*last = node`
                /\ acts' = [acts EXCEPT ![NAct] = ReplaceLast(a1, Node0)]
                /\ lastTop' = IF IsOutermost(NAct, Cur) THEN Node0 ELSE lastTop
                /\ UNCHANGED <<pid, status, fault, scopes, result, lastCall,
                               lastLookup, returned>>
           ELSE IF ~EnvContainsKey(scopes, key)
           THEN \* crash(..) : exit(1)
                /\ status' = "exit"
                /\ fault' = "UndefinedVariable"
                /\ acts' = [acts EXCEPT ![NAct] = a1]
                /\ lastLookup' = [n |-> lastLookup.n + 1, name |-> key,
                                  val |-> None, acts |-> NAct,
                                  scopes |-> scopes]
                /\ UNCHANGED <<pid, scopes, result, lastTop, lastCall,
                               returned>>
           ELSE /\ acts' = [acts EXCEPT ![NAct] =
                              PushValue(a1, EnvGet(scopes, key))]
                /\ lastTop' = IF IsOutermost(NAct, Cur)
                              THEN EnvGet(scopes, key) ELSE lastTop
                /\ lastLookup' = [n |-> lastLookup.n + 1, name |-> key,
                                  val |-> EnvGet(scopes, key), acts |-> NAct,
                                  scopes |-> scopes]
                /\ UNCHANGED <<pid, status, fault, scopes, result, lastCall,
                               returned>>

\* OpenFunc (lcore.rs:377-381)
EvalOpenFunc ==
    /\ Stepping({"OpenFunc"})
    /\ acts' = [acts EXCEPT ![NAct] =
                  [PopFront(Cur) EXCEPT !.arrays = Append(@, <<>>)]]
    /\ UNCHANGED <<pid, status, fault, scopes, result, lastTop, lastCall,
                   lastLookup, returned>>
    /\ UNCHANGED <<lastNative, lastLoop>>

\* The activation after a CloseFunc that leaves the top frame in place
PoppedKeepingFrame == PopFront(Cur)

\* CloseFunc, up to the `match func` (lcore.rs:383-395): the callable, the
\* argument Array and the activation with the top frame popped.
Callee  == TopFrame(Cur)[1]
CallArgs == Tail(TopFrame(Cur))
Popped   == [PopFront(Cur) EXCEPT !.arrays = SubSeq(@, 1, Len(@) - 1)]

\* (`v.remove(0)` finds the callee: the converter puts one after every
\* OpenFunc, and an unbound callee has ended the process before.)
Closing(kinds) ==
    /\ Stepping({"CloseFunc"})
    /\ TopFrame(Cur) # <<>>
    /\ Callee.k \in kinds

\* The value of a call lands in the frame below (lcore.rs:459-462)
Deliver(i, a, ret, sc, newReturned) ==
    IF a.arrays = <<>>
    THEN /\ Halt("panic", "IndexOutOfRange", sc, [acts EXCEPT ![i] = a])
    ELSE /\ acts' = SubSeq([acts EXCEPT ![i] = PushValue(a, ret)], 1, i)
         /\ scopes' = sc
         /\ lastTop' = IF IsOutermost(i, a) THEN ret ELSE lastTop
         /\ returned' = newReturned
         /\ UNCHANGED <<pid, status, fault, result, lastCall, lastLookup>>

\* What the dispatch of a native callable was given and what came back
NativeNote(name, args, r) ==
    [count |-> lastNative.count + 1, name |-> name, args |-> args,
     sc0 |-> scopes, sc1 |-> r.sc, tag |-> r.tag, val |-> r.val,
     fault |-> r.fault]

\* The value the loop has just bound to its iteration variable
BoundBy(qv, sc) ==
    IF qv.k = "Quote" /\ qv.v.k = "Identifier"
    THEN sc[Len(sc)][qv.v.v] ELSE None

\* CloseFunc, `_ => Value::Null` (lcore.rs:456)
EvalCloseFuncOther ==
    /\ Closing({"Null", "Identifier", "Boolean", "Int", "Float", "String",
                "Quote", "BackTick", "Comma"})
    /\ Deliver(NAct, Popped, Null, scopes, returned)
    /\ UNCHANGED <<lastNative, lastLoop>>

\* CloseFunc, `Value::Func { f } => f(&mut args, symbol_table)`
\* (lcore.rs:396) for a callable that does not re-enter the evaluator
EvalCloseFuncNative ==
    /\ Closing({"Func"})
    /\ LET r == NativeCall(Callee.v, CallArgs, scopes)
       IN  /\ r.tag # "iterate"
           /\ IF r.tag = "ok"
              THEN Deliver(NAct, Popped, r.val, r.sc, returned)
              ELSE Halt(r.tag, r.fault, r.sc, [acts EXCEPT ![NAct] = Popped])
           /\ lastNative' = NativeNote(Callee.v, CallArgs, r)
           /\ lastLoop' = IF Callee.v = "loop" /\ r.tag = "ok"
                          THEN [count |-> lastLoop.count + 1,
                                n |-> CallArgs[2].v, qv |-> CallArgs[1],
                                depth |-> Len(scopes),
                                bound |-> <<>>, runs |-> 0, errs |-> 0,
                                done |-> TRUE, ret |-> r.val]
                          ELSE lastLoop

\* CloseFunc on `loop` with at least one iteration: lcore_loop runs up to
\* its first call of lcore_interpret (builtin.rs:217-243)
EvalCloseFuncLoop ==
    /\ Closing({"Func"})
    /\ NativeCall(Callee.v, CallArgs, scopes).tag = "iterate"
    /\ LET qv == CallArgs[1]
           n == CallArgs[2].v
           body == CallArgs[3]
           r == LoopIter(qv, body, 0, scopes)
           caller == [acts EXCEPT ![NAct] = Popped]
       IN  IF r.tag # "ok" THEN Halt(r.tag, r.fault, r.sc, caller)
           ELSE IF NAct >= MaxCallDepth
           THEN Halt("overflow", "StackExhausted", r.sc, caller)
           ELSE /\ acts' = Append(caller,
                                  Activation(body.v.v, "loop", qv, body, 0, n))
                /\ scopes' = r.sc
                /\ UNCHANGED <<pid, status, fault, result, lastTop, lastCall,
                               lastLookup, returned>>
    /\ lastNative' = [NativeNote(Callee.v, CallArgs,
                                 NativeCall(Callee.v, CallArgs, scopes))
                         EXCEPT !.sc1 = scopes']
    /\ lastLoop' = IF status' = "running" /\ Len(acts') > NAct
                   THEN [count |-> lastLoop.count + 1, n |-> CallArgs[2].v,
                         qv |-> CallArgs[1], depth |-> Len(scopes),
                         bound |-> <<BoundBy(CallArgs[1], scopes')>>,
                         runs |-> 0, errs |-> 0, done |-> FALSE,
                         ret |-> None]
                   ELSE lastLoop

\* CloseFunc, `Value::Array(a) => ..` up to the recursive call of
\* lcore_interpret (lcore.rs:398-444)
EvalCloseFuncUser ==
    /\ Closing({"Array"})
    /\ LET a == Callee.v
           caller == [acts EXCEPT ![NAct] = Popped]
       IN  IF a = <<>> THEN Halt("panic", "IndexOutOfRange", scopes, caller)
           ELSE IF a[1].k # "Array"
           THEN Halt("panic", "Unreachable", scopes, caller)
           ELSE LET b == BindArgs(EnvPush(scopes), a[1].v, CallArgs, 0)
                    note == [n |-> lastCall.n + 1, names |-> a[1].v,
                             args |-> CallArgs, scope |-> b.sc[Len(b.sc)],
                             depth |-> Len(scopes), started |-> FALSE]
                IN  IF b.tag # "ok"
                    THEN /\ status' = "panic"
                         /\ fault' = b.fault
                         /\ scopes' = b.sc
                         /\ acts' = caller
                         /\ lastCall' = note
                         /\ UNCHANGED <<pid, result, lastTop, lastLookup,
                                        returned>>
                    ELSE IF Len(a) < 2
                    THEN Halt("panic", "IndexOutOfRange", b.sc, caller)
                    ELSE IF a[2].k # "Array"
                    THEN Halt("panic", "Unreachable", b.sc, caller)
                    ELSE IF NAct >= MaxCallDepth
                    THEN Halt("overflow", "StackExhausted", b.sc, caller)
                    ELSE /\ acts' = Append(caller,
                                 [Activation(a[2].v, "call", Null, a[2], 0, 0)
                                     EXCEPT !.sc0 = scopes])
                         /\ scopes' = b.sc
                         /\ lastCall' = [note EXCEPT !.started = TRUE]
                         /\ UNCHANGED <<pid, status, fault, result, lastTop,
                                        lastLookup, returned>>
    /\ UNCHANGED <<lastNative, lastLoop>>

\* The queue of an invocation is exhausted and its frame holds no value:
\* `v.pop().unwrap()` panics (lcore.rs:515)
ReturnNothing ==
    /\ status = "running"
    /\ Cur.queue = <<>>
    /\ ReturnValue(Cur.arrays) = None
    /\ Halt("panic", "UnwrapNone", scopes, acts)
    /\ UNCHANGED <<lastNative, lastLoop>>

\* The outermost invocation returns to the host (lcore.rs:512-517)
ReturnTop ==
    /\ status = "running"
    /\ Cur.queue = <<>>
    /\ Cur.kind = "top"
    /\ ReturnValue(Cur.arrays) # None
    /\ result' = ReturnValue(Cur.arrays)
    /\ status' = "done"
    /\ UNCHANGED <<pid, fault, scopes, acts, lastTop, lastCall, lastLookup,
                   returned>>
    /\ UNCHANGED <<lastNative, lastLoop>>

\* The body of a user-defined callable returns into the dispatch
\* (lcore.rs:444-462)
ReturnCall ==
    /\ status = "running"
    /\ Cur.queue = <<>>
    /\ Cur.kind = "call"
    /\ ReturnValue(Cur.arrays) # None
    /\ Deliver(NAct - 1, acts[NAct - 1], ReturnValue(Cur.arrays),
               EnvPop(scopes), returned + 1)
    /\ UNCHANGED <<lastNative, lastLoop>>

\* The history of the loop after the end of the iteration of the current
\* loop invocation (failed: 1 when the iteration ended in an Err)
LoopNote(failed) ==
    IF status' # "running" THEN lastLoop
    ELSE IF Len(acts') = NAct
    THEN [lastLoop EXCEPT !.runs = @ + 1, !.errs = @ + failed,
                          !.bound = Append(@, BoundBy(Cur.qv, scopes'))]
    ELSE [lastLoop EXCEPT !.runs = @ + 1, !.errs = @ + failed,
                          !.done = TRUE,
                          !.ret = LET v == TopFrame(acts'[NAct - 1])
                                  IN  v[Len(v)]]

\* The body of a loop returns into lcore_loop (builtin.rs:233-253), which
\* starts the next iteration or returns Ok(Null) to the evaluator
ReturnLoop ==
    /\ status = "running"
    /\ Cur.queue = <<>>
    /\ Cur.kind = "loop"
    /\ ReturnValue(Cur.arrays) # None
    /\ IF Cur.i + 1 < Cur.n
       THEN LET r == LoopIter(Cur.qv, Cur.body, Cur.i + 1, scopes)
            IN  IF r.tag # "ok" THEN Halt(r.tag, r.fault, r.sc, acts)
                ELSE /\ acts' = [acts EXCEPT ![NAct] =
                                   Activation(Cur.body.v.v, "loop", Cur.qv,
                                              Cur.body, Cur.i + 1, Cur.n)]
                     /\ scopes' = r.sc
                     /\ UNCHANGED <<pid, status, fault, result, lastTop,
                                    lastCall, lastLookup, returned>>
       ELSE Deliver(NAct - 1, acts[NAct - 1], Null, scopes, returned)
    /\ UNCHANGED lastNative
    /\ lastLoop' = LoopNote(0)

\* An Err raised in the body of a user-defined callable leaves the call:
\* the scope pushed for the call is popped and the Err goes on to the
\* caller of the dispatching invocation.
RaiseThroughCall ==
    /\ status = "raising"
    /\ Cur.kind = "call"
    /\ acts' = SubSeq(acts, 1, NAct - 1)
    /\ scopes' = EnvPop(scopes)
    /\ UNCHANGED <<pid, status, fault, result, lastTop, lastCall, lastLookup,
                   returned, lastNative, lastLoop>>

\* An Err reaches the host: the error is reported and the program unit is
\* not evaluated further.
RaiseToTop ==
    /\ status = "raising"
    /\ Cur.kind = "top"
    /\ status' = "error"
    /\ UNCHANGED <<pid, fault, scopes, acts, result, lastTop, lastCall,
                   lastLookup, returned, lastNative, lastLoop>>

\* lcore_interpret returns an Err into lcore_loop: `if let Err(err) = ..`
\* prints it and the `for` goes on with the next iteration, or lcore_loop
\* returns Ok(Null) after the last one (builtin.rs:243-253)
CatchLoop ==
    /\ status = "raising"
    /\ Cur.kind = "loop"
    /\ IF Cur.i + 1 < Cur.n
       THEN LET r == LoopIter(Cur.qv, Cur.body, Cur.i + 1, scopes)
            IN  IF r.tag # "ok" THEN Halt(r.tag, r.fault, r.sc, acts)
                ELSE /\ acts' = [acts EXCEPT ![NAct] =
                                   Activation(Cur.body.v.v, "loop", Cur.qv,
                                              Cur.body, Cur.i + 1, Cur.n)]
                     /\ scopes' = r.sc
                     /\ status' = "running"
                     /\ fault' = ""
                     /\ UNCHANGED <<pid, result, lastTop, lastCall,
                                    lastLookup, returned>>
       ELSE /\ acts' = SubSeq([acts EXCEPT ![NAct - 1] =
                                  PushValue(acts[NAct - 1], Null)],
                              1, NAct - 1)
            /\ status' = "running"
            /\ fault' = ""
            /\ lastTop' = IF IsOutermost(NAct - 1, acts[NAct - 1])
                          THEN Null ELSE lastTop
            /\ UNCHANGED <<pid, scopes, result, lastCall, lastLookup,
                           returned>>
    /\ UNCHANGED lastNative
    /\ lastLoop' = LoopNote(1)

(***************************************************************************)
(* Programs: the parse trees the runs start from                           *)
(***************************************************************************)
Id(s)        == Node("Identifier", s, <<>>)
Num(cs)      == Node("Number", cs, <<>>)
Str(s)       == Node("String", s, <<>>)
Bool(s)      == Node("Boolean", s, <<>>)
Nul          == Node("Null", "Null", <<>>)
Tick         == Node("BackTick", "BackTick", <<>>)
NewLine      == Node("NewLine", "\n", <<>>)
EOI          == Node("EOI", "", <<>>)
Q(n)         == Node("Quote", "", <<n>>)
Arr(ch)      == Node("Array", "", ch)
Fn(name, ch) == Node("Function", "", <<Id(name)>> \o ch)
Program(ch)  == Node("Program", "", ch \o <<EOI>>)

\* (defn 'name [params] '[body])
Defn(name, params, body) ==
    Fn("defn", <<Q(Id(name)),
                 Arr([i \in 1..Len(params) |-> Q(Id(params[i]))]),
                 Q(Arr(body))>>)

\* The index lexemes of the programs (get [10 20 30] i), i = -7 .. 4
IndexLexemes ==
    << <<"-", "7">>, <<"-", "6">>, <<"-", "5">>, <<"-", "4">>, <<"-", "3">>,
       <<"-", "2">>, <<"-", "1">>, <<"0">>, <<"1">>, <<"2">>, <<"3">>,
       <<"4">> >>

GetAt(cs) ==
    Program(<<Fn("get", <<Arr(<<Num(<<"1", "0">>), Num(<<"2", "0">>),
                                Num(<<"3", "0">>)>>), Num(cs)>>)>>)

Programs == <<
    \*  1: 5
    Program(<<Num(<<"5">>)>>),
    \*  2: the empty program
    Program(<<NewLine>>),
    \*  3: (defn 'f ['a 'b] '[a]) (f 3 4)
    Program(<<Defn("f", <<"a", "b">>, <<Id("a")>>), NewLine,
              Fn("f", <<Num(<<"3">>), Num(<<"4">>)>>)>>),
    \*  4: (defn 'f ['a 'b] '[(+ a b)]) (f 3 4)
    Program(<<Defn("f", <<"a", "b">>, <<Fn("+", <<Id("a"), Id("b")>>)>>),
              Fn("f", <<Num(<<"3">>), Num(<<"4">>)>>)>>),
    \*  5: (defn 'f ['a] '[a]) (f 1 2)
    Program(<<Defn("f", <<"a">>, <<Id("a")>>),
              Fn("f", <<Num(<<"1">>), Num(<<"2">>)>>)>>),
    \*  6: (defn 'f ['a 'b] '[b]) (f 1)
    Program(<<Defn("f", <<"a", "b">>, <<Id("b")>>),
              Fn("f", <<Num(<<"1">>)>>)>>),
    \*  7: y
    Program(<<Id("y")>>),
    \*  8: (defn 'f [] '[y]) (f)
    Program(<<Defn("f", <<>>, <<Id("y")>>), Fn("f", <<>>)>>),
    \*  9: (set 'x 1) (defn 'f [] '[x]) (defn 'g ['x] '[(f)]) (g 7)
    Program(<<Fn("set", <<Q(Id("x")), Num(<<"1">>)>>),
              Defn("f", <<>>, <<Id("x")>>),
              Defn("g", <<"x">>, <<Fn("f", <<>>)>>),
              Fn("g", <<Num(<<"7">>)>>)>>),
    \* 10: (defn 'f [] '[x]) (defn 'g ['x] '[(f)]) (g 7)
    Program(<<Defn("f", <<>>, <<Id("x")>>),
              Defn("g", <<"x">>, <<Fn("f", <<>>)>>),
              Fn("g", <<Num(<<"7">>)>>)>>),
    \* 11: (set 'x 1) (defn 'h ['x] '[(set 'x 9) x]) (h 5) x
    Program(<<Fn("set", <<Q(Id("x")), Num(<<"1">>)>>),
              Defn("h", <<"x">>,
                   <<Fn("set", <<Q(Id("x")), Num(<<"9">>)>>), Id("x")>>),
              Fn("h", <<Num(<<"5">>)>>), Id("x")>>),
    \* 12: (defn 'e [] '[]) (e)
    Program(<<Defn("e", <<>>, <<>>), Fn("e", <<>>)>>),
    \* 13: (loop 'i 2 '[])
    Program(<<Fn("loop", <<Q(Id("i")), Num(<<"2">>), Q(Arr(<<>>))>>)>>),
    \* 14: (loop 'i 2 '[i]) i
    Program(<<Fn("loop", <<Q(Id("i")), Num(<<"2">>), Q(Arr(<<Id("i")>>))>>),
              Id("i")>>),
    \* 15: (defn 'r [] '[(r)]) (r)
    Program(<<Defn("r", <<>>, <<Fn("r", <<>>)>>), Fn("r", <<>>)>>),
    \* 16: (defn 'f ['a] '[(+ a "s")]) (f 1)
    Program(<<Defn("f", <<"a">>, <<Fn("+", <<Id("a"), Str("s")>>)>>),
              Fn("f", <<Num(<<"1">>)>>)>>),
    \* 17: (backtick) 1.5 "s" true Null
    Program(<<Tick, Num(<<"1", ".", "5">>), Str("s"), Bool("true"), Nul>>),
    \* 18: (set 'n 3) (n 1)
    Program(<<Fn("set", <<Q(Id("n")), Num(<<"3">>)>>),
              Fn("n", <<Num(<<"1">>)>>)>>),
    \* 19: (defn 'f ['a] '[(+ a 1)]) (defn 'g ['b] '[(f (f b))]) (g 1)
    Program(<<Defn("f", <<"a">>, <<Fn("+", <<Id("a"), Num(<<"1">>)>>)>>),
              Defn("g", <<"b">>, <<Fn("f", <<Fn("f", <<Id("b")>>)>>)>>),
              Fn("g", <<Num(<<"1">>)>>)>>),
    \* 20: (set 'y 2) 'x y
    Program(<<Fn("set", <<Q(Id("y")), Num(<<"2">>)>>), Q(Id("x")), Id("y")>>),
    \* 21: (print 1) (to-str 1) (quit)
    Program(<<Fn("print", <<Num(<<"1">>)>>), Fn("to-str", <<Num(<<"1">>)>>),
              Fn("quit", <<>>)>>),
    \* 22: (defn 'f ['a] '[a]) (loop 'i 2 '[(f i)])
    Program(<<Defn("f", <<"a">>, <<Id("a")>>),
              Fn("loop", <<Q(Id("i")), Num(<<"2">>),
                           Q(Arr(<<Fn("f", <<Id("i")>>)>>))>>)>>),
    \* 23: (defn 'f ['a] '[a]) (defn 'g [] '[(f 1 2)]) (g)
    Program(<<Defn("f", <<"a">>, <<Id("a")>>),
              Defn("g", <<>>, <<Fn("f", <<Num(<<"1">>), Num(<<"2">>)>>)>>),
              Fn("g", <<>>)>>),
    \* 24: (defn 'r [] '[(defn 'r [] '[1]) (r)]) (r) 2
    Program(<<Defn("r", <<>>, <<Defn("r", <<>>, <<Num(<<"1">>)>>),
                                Fn("r", <<>>)>>),
              Fn("r", <<>>), Num(<<"2">>)>>),
    \* 25: (defn 'f ['a 'b 'c] '[a]) (f 1 2 3)
    Program(<<Defn("f", <<"a", "b", "c">>, <<Id("a")>>),
              Fn("f", <<Num(<<"1">>), Num(<<"2">>), Num(<<"3">>)>>)>>),
    \* 26: '(f)   (a quoted call)
    Program(<<Q(Fn("f", <<>>))>>),
    \* 27: ()-less stray: (+ 1 2) (+ 1)
    Program(<<Fn("+", <<Num(<<"1">>), Num(<<"2">>)>>),
              Fn("+", <<Num(<<"1">>)>>)>>),
    \* 28: a Quote node with no convertible child
    Program(<<Q(NewLine)>>),
    \* 29: [1 2 3] ['a [4]]
    Program(<<Arr(<<Num(<<"1">>), Num(<<"2">>), Num(<<"3">>)>>),
              Arr(<<Q(Id("a")), Arr(<<Num(<<"4">>)>>)>>)>>),
    \* 30: [1 (+ 2 3)] [1 [x]]
    Program(<<Arr(<<Num(<<"1">>),
                    Fn("+", <<Num(<<"2">>), Num(<<"3">>)>>)>>),
              Arr(<<Num(<<"1">>), Arr(<<Id("x")>>)>>)>>),
    \* 31: (set 'x 5) x
    Program(<<Fn("set", <<Q(Id("x")), Num(<<"5">>)>>), Id("x")>>),
    \* 32: (set 'x 1) (set 'x 2) x
    Program(<<Fn("set", <<Q(Id("x")), Num(<<"1">>)>>),
              Fn("set", <<Q(Id("x")), Num(<<"2">>)>>), Id("x")>>),
    \* 33: (set 'y 3) (set 'x y) x
    Program(<<Fn("set", <<Q(Id("y")), Num(<<"3">>)>>),
              Fn("set", <<Q(Id("x")), Id("y")>>), Id("x")>>),
    \* 34: (loop 'i 0 '[1]) i
    Program(<<Fn("loop", <<Q(Id("i")), Num(<<"0">>),
                           Q(Arr(<<Num(<<"1">>)>>))>>), Id("i")>>),
    \* 35: (loop 'i -1 '[1])
    Program(<<Fn("loop", <<Q(Id("i")), Num(<<"-", "1">>),
                           Q(Arr(<<Num(<<"1">>)>>))>>)>>),
    \* 36: (loop 'i 3 '[(set 'k (+ i 1))]) k
    Program(<<Fn("loop", <<Q(Id("i")), Num(<<"3">>),
                           Q(Arr(<<Fn("set", <<Q(Id("k")),
                                   Fn("+", <<Id("i"), Num(<<"1">>)>>)>>)>>))>>),
              Id("k")>>),
    \* 37: (loop 'i 2 '[(get [1] 5)]) i
    Program(<<Fn("loop", <<Q(Id("i")), Num(<<"2">>),
                           Q(Arr(<<Fn("get", <<Arr(<<Num(<<"1">>)>>),
                                               Num(<<"5">>)>>)>>))>>),
              Id("i")>>),
    \* 38: (loop 'i 2 '[(+ i "s")])
    Program(<<Fn("loop", <<Q(Id("i")), Num(<<"2">>),
                           Q(Arr(<<Fn("+", <<Id("i"), Str("s")>>)>>))>>)>>),
    \* 39: (defn 'f [] '[(get [1] 5)]) (f) 1
    Program(<<Defn("f", <<>>, <<Fn("get", <<Arr(<<Num(<<"1">>)>>),
                                            Num(<<"5">>)>>)>>),
              Fn("f", <<>>), Num(<<"1">>)>>),
    \* 40: (get [] 0)
    Program(<<Fn("get", <<Arr(<<>>), Num(<<"0">>)>>)>>),
    \* 41: (get [10 20 30] '1)
    Program(<<Fn("get", <<Arr(<<Num(<<"1", "0">>), Num(<<"2", "0">>),
                                Num(<<"3", "0">>)>>), Q(Num(<<"1">>))>>)>>),
    \* 42: (get [1 2] "s")
    Program(<<Fn("get", <<Arr(<<Num(<<"1">>), Num(<<"2">>)>>), Str("s")>>)>>),
    \* 43: (dict 1)
    Program(<<Fn("dict", <<Num(<<"1">>)>>)>>),
    \* 44: (get (dict 'a 1 'b 2) 'b)
    Program(<<Fn("get", <<Fn("dict", <<Q(Id("a")), Num(<<"1">>),
                                       Q(Id("b")), Num(<<"2">>)>>),
                          Q(Id("b"))>>)>>),
    \* 45: (get (dict 'a 1) 'z)
    Program(<<Fn("get", <<Fn("dict", <<Q(Id("a")), Num(<<"1">>)>>),
                          Q(Id("z"))>>)>>),
    \* 46: (set 'x)
    Program(<<Fn("set", <<Q(Id("x"))>>)>>),
    \* 47: (+ 1 "s")
    Program(<<Fn("+", <<Num(<<"1">>), Str("s")>>)>>),
    \* 48: (get [7] 1) (get [7] 0)
    Program(<<Fn("get", <<Arr(<<Num(<<"7">>)>>), Num(<<"1">>)>>),
              Fn("get", <<Arr(<<Num(<<"7">>)>>), Num(<<"0">>)>>)>>),
    \* 49: (get (dict 'a 1 'b 2) 'a)
    Program(<<Fn("get", <<Fn("dict", <<Q(Id("a")), Num(<<"1">>),
                                       Q(Id("b")), Num(<<"2">>)>>),
                          Q(Id("a"))>>)>>),
    \* 50: (len (dict 'a 1 'b 2))
    Program(<<Fn("len", <<Fn("dict", <<Q(Id("a")), Num(<<"1">>),
                                       Q(Id("b")), Num(<<"2">>)>>)>>)>>),
    \* 51: (get (dict 1 "one" "k" 2 true 3 1.5 4) "k")
    Program(<<Fn("get", <<Fn("dict", <<Num(<<"1">>), Str("one"),
                                       Str("k"), Num(<<"2">>),
                                       Bool("true"), Num(<<"3">>),
                                       Num(<<"1", ".", "5">>), Num(<<"4">>)>>),
                          Str("k")>>)>>),
    \* 52: (get (dict Null 1) Null)
    Program(<<Fn("get", <<Fn("dict", <<Nul, Num(<<"1">>)>>), Nul>>)>>),
    \* 53: (len (dict 'a 1 "a" 2))
    Program(<<Fn("len", <<Fn("dict", <<Q(Id("a")), Num(<<"1">>),
                                       Str("a"), Num(<<"2">>)>>)>>)>>),
    \* 54: (len [1 2]) (len "abc") (len 'x) (len 5)
    Program(<<Fn("len", <<Arr(<<Num(<<"1">>), Num(<<"2">>)>>)>>),
              Fn("len", <<Str("abc")>>), Fn("len", <<Q(Id("x"))>>),
              Fn("len", <<Num(<<"5">>)>>)>>),
    \* 55: 'x z   (z unbound)
    Program(<<Q(Id("x")), Id("z")>>),
    \* 56: z 1    (z unbound)
    Program(<<Id("z"), Num(<<"1">>)>>),
    \* 57: (get [1] 5) 1
    Program(<<Fn("get", <<Arr(<<Num(<<"1">>)>>), Num(<<"5">>)>>),
              Num(<<"1">>)>>),
    \* 58: (set 'a [1 2 3]) (swap 'a '[1] 9) a
    Program(<<Fn("set", <<Q(Id("a")), Arr(<<Num(<<"1">>), Num(<<"2">>),
                                            Num(<<"3">>)>>)>>),
              Fn("swap", <<Q(Id("a")), Q(Arr(<<Num(<<"1">>)>>)),
                           Num(<<"9">>)>>), Id("a")>>),
    \* 59: (set 'a [1 2 3]) (defn 'f [] '[(swap 'a '[0] 9)]) (f) a
    Program(<<Fn("set", <<Q(Id("a")), Arr(<<Num(<<"1">>), Num(<<"2">>),
                                            Num(<<"3">>)>>)>>),
              Defn("f", <<>>, <<Fn("swap", <<Q(Id("a")),
                                             Q(Arr(<<Num(<<"0">>)>>)),
                                             Num(<<"9">>)>>)>>),
              Fn("f", <<>>), Id("a")>>),
    \* 60: (set 'a [1 2]) (defn 'g ['a] '[(swap 'a '[0] 9) a]) (g [5 6]) a
    Program(<<Fn("set", <<Q(Id("a")), Arr(<<Num(<<"1">>), Num(<<"2">>)>>)>>),
              Defn("g", <<"a">>, <<Fn("swap", <<Q(Id("a")),
                                                Q(Arr(<<Num(<<"0">>)>>)),
                                                Num(<<"9">>)>>), Id("a")>>),
              Fn("g", <<Arr(<<Num(<<"5">>), Num(<<"6">>)>>)>>), Id("a")>>),
    \* 61: (set 'm [[1 2] 3]) (swap 'm '[0 1] 9) m
    Program(<<Fn("set", <<Q(Id("m")),
                          Arr(<<Arr(<<Num(<<"1">>), Num(<<"2">>)>>),
                                Num(<<"3">>)>>)>>),
              Fn("swap", <<Q(Id("m")),
                           Q(Arr(<<Num(<<"0">>), Num(<<"1">>)>>)),
                           Num(<<"9">>)>>), Id("m")>>),
    \* 62: (set 'a [1 2 3]) (swap 'a '[5] 1)
    Program(<<Fn("set", <<Q(Id("a")), Arr(<<Num(<<"1">>), Num(<<"2">>),
                                            Num(<<"3">>)>>)>>),
              Fn("swap", <<Q(Id("a")), Q(Arr(<<Num(<<"5">>)>>)),
                           Num(<<"1">>)>>)>>),
    \* 63: (swap 'zz '[0] 1) (set 'n 3) (swap 'n '[0] 1)
    Program(<<Fn("swap", <<Q(Id("zz")), Q(Arr(<<Num(<<"0">>)>>)),
                           Num(<<"1">>)>>),
              Fn("set", <<Q(Id("n")), Num(<<"3">>)>>),
              Fn("swap", <<Q(Id("n")), Q(Arr(<<Num(<<"0">>)>>)),
                           Num(<<"1">>)>>)>>),
    \* 64: (set 'd (dict 'k 1)) (swap 'd '[k] 2) (get d 'k)
    Program(<<Fn("set", <<Q(Id("d")),
                          Fn("dict", <<Q(Id("k")), Num(<<"1">>)>>)>>),
              Fn("swap", <<Q(Id("d")), Q(Arr(<<Id("k")>>)), Num(<<"2">>)>>),
              Fn("get", <<Id("d"), Q(Id("k"))>>)>>),
    \* 65: (set 'a [1 2 3]) (swap 'a '[-1] 9) (swap 'a '[2] 8) a
    Program(<<Fn("set", <<Q(Id("a")), Arr(<<Num(<<"1">>), Num(<<"2">>),
                                            Num(<<"3">>)>>)>>),
              Fn("swap", <<Q(Id("a")), Q(Arr(<<Num(<<"-", "1">>)>>)),
                           Num(<<"9">>)>>),
              Fn("swap", <<Q(Id("a")), Q(Arr(<<Num(<<"2">>)>>)),
                           Num(<<"8">>)>>), Id("a")>>)
>> \o [j \in 1..Len(IndexLexemes) |-> GetAt(IndexLexemes[j])]

(***************************************************************************)
(* The run                                                                 *)
(***************************************************************************)
\* The host has created the Environment, pushed the global scope and
\* called import_builtins; the program is about to be converted.
Init ==
    /\ pid \in 1..Len(Programs)
    /\ status = "parse"
    /\ fault = ""
    /\ scopes = <<Builtins>>
    /\ acts = <<>>
    /\ result = None
    /\ lastTop = None
    /\ lastCall = [n |-> 0, names |-> <<>>, args |-> <<>>,
                   scope |-> EmptySymTab, depth |-> 0, started |-> FALSE]
    /\ lastLookup = [n |-> 0, name |-> "", val |-> None, acts |-> 0,
                     scopes |-> <<>>]
    /\ returned = 0
    /\ lastNative = [count |-> 0, name |-> "", args |-> <<>>, sc0 |-> <<>>,
                     sc1 |-> <<>>, tag |-> "", val |-> Null, fault |-> ""]
    /\ lastLoop = [count |-> 0, n |-> 0, qv |-> Null, depth |-> 0,
                   bound |-> <<>>, runs |-> 0, errs |-> 0, done |-> FALSE,
                   ret |-> None]

\* lcore_parse on the whole tree, then the host calls lcore_interpret
Convert ==
    /\ status = "parse"
    /\ LET r == lcore_parse(Programs[pid])
       IN  IF r.ok
           THEN /\ status' = "running"
                /\ acts' = <<Activation(r.toks, "top", Null, Array(r.toks),
                                        0, 0)>>
                /\ UNCHANGED fault
           ELSE /\ status' = "panic"
                /\ fault' = "AssertQuote"
                /\ UNCHANGED acts
    /\ UNCHANGED <<pid, scopes, result, lastTop, lastCall, lastLookup,
                   returned, lastNative, lastLoop>>

Next ==
    \/ Convert
    \/ EvalScalar
    \/ EvalMaterialized
    \/ EvalIdentifier
    \/ EvalOpenFunc
    \/ EvalCloseFuncOther
    \/ EvalCloseFuncNative
    \/ EvalCloseFuncLoop
    \/ EvalCloseFuncUser
    \/ ReturnNothing
    \/ ReturnTop
    \/ ReturnCall
    \/ ReturnLoop
    \/ RaiseThroughCall
    \/ RaiseToTop
    \/ CatchLoop

Spec == Init /\ [][Next]_vars

\* A step of the evaluator or of the return of an invocation
Evaluate == status # "parse" /\ Next

\* The evaluator is one sequential loop: once lcore_interpret is entered,
\* a step that is possible is taken (`while let Some(node) =
\* stack.pop_front()`, lcore.rs:274)
FairSpec == Init /\ [][Next]_vars /\ WF_vars(Evaluate)

(***************************************************************************)
(* Properties                                                              *)
(***************************************************************************)
\* Names and values the Environment properties are probed with: builtins,
\* names the programs bind at several depths, and a name nothing binds.
ProbeNames == {"x", "a", "b", "f", "i", "set", "unbound"}
ProbeValues == {IntV(0), IntV(9)}

SetMax(S) == CHOOSE m \in S : \A x \in S : x <= m

\* The scopes that hold a name
Holders(sc, name) == {i \in 1..Len(sc) : name \in DOMAIN sc[i]}

\* The user-defined calls whose body is being executed
LiveCalls == {i \in 1..Len(acts) : acts[i].kind = "call"}

\* C1: a user-defined callable with parameter names [p1..pn], n >= 2,
\* called with (a1..an) runs its body with pi bound to ai for every i.
C1_PositionalBinding ==
    (lastCall.started /\ Len(lastCall.names) = Len(lastCall.args)
        /\ Len(lastCall.names) >= 2)
    => \A i \in 1..Len(lastCall.names) :
          lastCall.scope[lastCall.names[i].v.v] = lastCall.args[i]

\* C2: a user-defined call whose argument count differs from its parameter
\* count ends in an ArityError: no out-of-range access on the parameter
\* list, and the body does not start with a parameter left unbound.
C2_ArityMismatchIsArityError ==
    (lastCall.n > 0 /\ Len(lastCall.names) # Len(lastCall.args))
    => /\ fault = "ArityError"
       /\ ~lastCall.started

\* C3: every user-defined call pushes exactly one scope and pops exactly one
\* when its body has returned: while the run goes on, and when it is done,
\* the scope depth is 1 plus the number of user-defined calls still
\* executing (so a call that has returned left the depth as it found it),
\* and the global scope with the builtins is never popped.
C3_ScopeDepthBalanced ==
    /\ Len(scopes) >= 1
    /\ \A n \in BuiltinNames : n \in DOMAIN scopes[1]
    /\ status \in {"running", "done"}
          => Len(scopes) = 1 + Cardinality(LiveCalls)

\* Nested user-defined calls have returned and the run is done.
C3_Witness ==
    /\ status = "done"
    /\ returned >= 3
    /\ Len(scopes) = 1

\* C4: when the body of a user-defined callable fails, the scope pushed for
\* the call is popped before the failure leaves the call: once evaluation
\* has failed, no scope of a call is left on the Environment.
C4_PopOnFailure ==
    status \in {"exit", "panic"} => Len(scopes) = 1

\* C5: resolving an identifier that no scope binds fails with a recoverable
\* NameError; the process is not terminated.
C5_UnboundIsNameError ==
    (lastLookup.n > 0 /\ lastLookup.val = None)
    => /\ status # "exit"
       /\ fault = "NameError"

\* C6 (as stated): an identifier read in a function body is resolved against
\* the function's own scope, then the global scope, never against a scope of
\* one of its callers.
C6_LexicalScoping ==
    lastLookup.n > 0
    => lastLookup.val = EnvGetOwnThenGlobal(lastLookup.scopes, lastLookup.name)

\* C6 (amended): an identifier read in a function body is resolved against
\* the whole scope stack as it stands when it is read, innermost first: the
\* function's own scope, then the scopes of its callers from the most recent
\* outwards, then the global scope; it is unresolved only if none binds it.
C6_DynamicScoping ==
    lastLookup.n > 0
    => LET h == Holders(lastLookup.scopes, lastLookup.name)
       IN  IF h = {} THEN lastLookup.val = None
           ELSE lastLookup.val = lastLookup.scopes[SetMax(h)][lastLookup.name]

\* f, called by g, has read x, which f does not bind and g binds: it got
\* g's x.
C6_Witness ==
    /\ lastLookup.n > 0
    /\ Len(lastLookup.scopes) >= 3
    /\ lastLookup.name = "x"
    /\ "x" \notin DOMAIN lastLookup.scopes[Len(lastLookup.scopes)]
    /\ "x" \in DOMAIN lastLookup.scopes[Len(lastLookup.scopes) - 1]
    /\ lastLookup.val = IntV(7)

\* C7: insert writes the innermost scope only, every outer scope is left as
\* it was, and push(); insert(name, value); pop() leaves get(n) unchanged
\* for every name n.
C7_InsertInnermostOnly ==
    \A n \in ProbeNames : \A val \in ProbeValues :
        LET s2 == EnvInsert(scopes, n, val)
            s3 == EnvPop(EnvInsert(EnvPush(scopes), n, val))
        IN  /\ Len(s2) = Len(scopes)
            /\ \A i \in 1..(Len(scopes) - 1) : s2[i] = scopes[i]
            /\ s2[Len(s2)][n] = val
            /\ \A m \in ProbeNames : EnvGet(s3, m) = EnvGet(scopes, m)

\* The body of h has rebound its parameter x, which shadows the global x.
C7_Witness ==
    /\ Len(scopes) = 2
    /\ "x" \in DOMAIN scopes[1] /\ "x" \in DOMAIN scopes[2]
    /\ scopes[1]["x"] = IntV(1)
    /\ scopes[2]["x"] = IntV(9)

\* C8: get returns the binding held by the innermost scope that contains
\* the name, nothing only when no scope contains it, and contains_key is
\* true exactly when get returns a binding.
C8_GetInnermostBinding ==
    \A n \in ProbeNames :
        LET h == Holders(scopes, n)
        IN  /\ h = {} => EnvGet(scopes, n) = None
            /\ h # {} => EnvGet(scopes, n) = scopes[SetMax(h)][n]
            /\ EnvContainsKey(scopes, n) <=> EnvGet(scopes, n) # None

\* A name bound to different values in two scopes has been read.
C8_Witness ==
    /\ lastLookup.n > 0
    /\ Cardinality(Holders(lastLookup.scopes, lastLookup.name)) >= 2
    /\ lastLookup.scopes[1][lastLookup.name] # lastLookup.val
    /\ scopes = lastLookup.scopes

C10_EmptyQueueYieldsNull ==
    (acts # <<>> /\ Cur.queue = <<>> /\ Cur.arrays = <<<<>>>>)
    => status # "panic"

\* The kinds that are structural markers or an unresolved Identifier
MarkerKinds ==
    {"OpenFunc", "CloseFunc", "OpenBrace", "CloseBrace", "BackTick", "Comma",
     "Identifier"}

\* An Array value holds, at some depth, a marker or a bare Identifier as an
\* element (a quoted Identifier is not one).
RECURSIVE Marked(_)
Marked(arr) ==
    \E i \in 1..Len(arr.v) :
        LET e == arr.v[i]
        IN  \/ e.k \in MarkerKinds
            \/ e.k = "Array" /\ Marked(e)
            \/ e.k = "Quote" /\ e.v.k = "Array" /\ Marked(e.v)

\* An array literal holds, at some depth, a call, an identifier, a backtick
\* or a comma.
RECURSIVE LiteralHasCode(_)
LiteralHasCode(node) ==
    \E i \in 1..Len(node.ch) :
        LET c == node.ch[i]
        IN  \/ c.rule \in {"Function", "Identifier", "BackTick", "Comma"}
            \/ c.rule = "Array" /\ LiteralHasCode(c)
            \/ /\ c.rule = "Quote"
               /\ \E j \in 1..Len(c.ch) :
                     c.ch[j].rule = "Array" /\ LiteralHasCode(c.ch[j])

\* The values held by the frames and the queue of an activation
ValuesOf(a) ==
    {a.queue[i] : i \in 1..Len(a.queue)}
    \cup UNION {{a.arrays[j][i] : i \in 1..Len(a.arrays[j])} :
                j \in 1..Len(a.arrays)}

LiveValues == UNION {ValuesOf(acts[i]) : i \in 1..Len(acts)}

\* C11 (as stated): no Array the converter emits or the evaluator holds in a
\* frame has a structural marker or an unresolved Identifier as an element,
\* also when the array literal holds a call.
C11_NoMarkerInArrays ==
    \A e \in LiveValues :
        /\ e.k = "Array" => ~Marked(e)
        /\ (e.k = "Quote" /\ e.v.k = "Array") => ~Marked(e.v)

\* Every array literal of the tree converts to one Array token, which holds
\* a marker or a bare Identifier exactly when the literal holds code.
RECURSIVE ArrayLiteralsFlattened(_)
ArrayLiteralsFlattened(node) ==
    /\ node.rule = "Array" =>
          LET r == lcore_parse(node)
          IN  r.ok => /\ Len(r.toks) = 1
                      /\ r.toks[1].k = "Array"
                      /\ Marked(r.toks[1]) <=> LiteralHasCode(node)
    /\ \A i \in 1..Len(node.ch) : ArrayLiteralsFlattened(node.ch[i])

\* C11 (amended): the converter flattens the tokens of a call written inside
\* an array literal (OpenFunc, callee, arguments, CloseFunc) into the Array
\* it emits, and keeps identifiers, backticks and commas of the literal as
\* elements; an Array holds a marker or an unresolved Identifier exactly when
\* its literal holds one of these, and an array literal of scalars, quoted
\* names and such arrays yields an Array free of them.
C11_MarkersOnlyFromCodeLiterals ==
    ArrayLiteralsFlattened(Programs[pid])

\* The quoted body of a function, holding the tokens of a call, has been
\* appended to a frame, next to a parameter list that holds no marker.
C11_Witness ==
    /\ status = "running"
    /\ \E e \in LiveValues :
          e.k = "Quote" /\ e.v.k = "Array" /\ Marked(e.v)
          /\ \E j \in 1..Len(e.v.v) : e.v.v[j].k = "OpenFunc"
    /\ \E e \in LiveValues :
          e.k = "Array" /\ Len(e.v) >= 2 /\ ~Marked(e)

\* Some Quote node of the tree converts to a sub-queue that does not hold
\* exactly one token.
RECURSIVE HasMalformedQuote(_)
HasMalformedQuote(node) ==
    \/ node.rule = "Quote" /\ Len(ParseChildren(node.ch).toks) # 1
    \/ \E i \in 1..Len(node.ch) : HasMalformedQuote(node.ch[i])

\* C12: converting a Quote node whose sub-queue holds zero or several tokens
\* ends in a structured ParseError, not in an abort of the process.
C12_MalformedQuoteIsParseError ==
    (status # "parse" /\ HasMalformedQuote(Programs[pid]))
    => (status = "error" /\ fault = "ParseError")

\* The frame stack `old` after its top frame was removed and `value` was
\* appended to the frame below, whose elements stay as they were
FrameEffect(old, new, value) ==
    LET d == Len(old)
    IN  /\ d >= 2
        /\ Len(new) = d - 1
        /\ \A j \in 1..(d - 2) : new[j] = old[j]
        /\ new[d - 1] = Append(old[d - 1], value)

\* The smaller of the numbers of live invocations before and after a step
Common == IF Len(acts') < Len(acts) THEN Len(acts') ELSE Len(acts)

\* C13: processing CloseFunc removes the top frame, takes its first element
\* as the callable and the rest, in order, as the argument Array, and
\* appends exactly one value, the return value of the call, to the frame
\* below, whose elements stay unchanged; while the body of a user-defined
\* callable or of a loop runs, the frames of its caller are not altered.
C13_CloseFuncFrameEffect ==
    [][ (status = "running" /\ status' = "running") =>
          /\ \A j \in 1..(Common - 1) : acts'[j] = acts[j]
          /\ (Cur.queue # <<>> /\ Node0.k = "CloseFunc") =>
                /\ acts'[NAct].queue = Tail(Cur.queue)
                /\ IF Len(acts') = NAct
                   THEN /\ FrameEffect(Cur.arrays, acts'[NAct].arrays,
                                       IF Callee.k = "Func"
                                       THEN lastNative'.val ELSE Null)
                        /\ Callee.k = "Func" =>
                              /\ lastNative'.name = Callee.v
                              /\ lastNative'.args = Tail(TopFrame(Cur))
                   ELSE /\ acts'[NAct].arrays =
                              SubSeq(Cur.arrays, 1, Len(Cur.arrays) - 1)
                        /\ Callee.k = "Array" =>
                              /\ lastCall'.names = Callee.v[1].v
                              /\ lastCall'.args = Tail(TopFrame(Cur))
                        /\ Callee.k = "Func" =>
                              lastNative'.args = Tail(TopFrame(Cur))
          /\ Len(acts') < NAct =>
                /\ acts'[NAct - 1].queue = acts[NAct - 1].queue
                /\ LET below == acts[NAct - 1].arrays
                       value == IF Cur.kind = "call"
                                THEN ReturnValue(Cur.arrays) ELSE Null
                   IN  FrameEffect(below \o <<<<>>>>,
                                   acts'[NAct - 1].arrays, value)
      ]_vars

\* A user-defined call has returned its value into a frame that already
\* held an element, inside the body of another call.
C13_Witness ==
    /\ status = "running"
    /\ returned >= 1
    /\ NAct >= 2
    /\ Len(TopFrame(Cur)) = 2
    /\ TopFrame(Cur)[1].k = "Array"
    /\ TopFrame(Cur)[2] = IntV(2)

\* The name argument of a call of set, when it is a quoted identifier
SetName(args) ==
    IF Len(args) >= 2 /\ args[1].k = "Quote" /\ args[1].v.k = "Identifier"
    THEN args[1].v.v ELSE ""

\* C14: the dispatch of a native callable leaves the number of Environment
\* scopes as it was; (set 'x v) writes x in the scope that is innermost at
\* the call and leaves the other scopes alone, and a read of x that follows
\* at that scope depth yields v.
C14_NativePushesNoScope ==
    lastNative.count > 0 =>
        LET sc0 == lastNative.sc0
            sc1 == lastNative.sc1
            x == SetName(lastNative.args)
        IN  /\ Len(sc1) = Len(sc0)
            /\ (lastNative.name = "set" /\ lastNative.tag = "ok" /\ x # "") =>
                  /\ x \in DOMAIN sc1[Len(sc1)]
                  /\ sc1[Len(sc1)][x] = lastNative.args[2]
                  /\ \A j \in 1..(Len(sc1) - 1) : sc1[j] = sc0[j]
                  /\ EnvGet(sc1, x) = lastNative.args[2]
                  /\ (lastLookup.scopes = sc1 /\ lastLookup.name = x) =>
                        lastLookup.val = lastNative.args[2]

\* Inside the body of a user-defined call, set has bound a name that the
\* global scope binds too, and the name was read back right after.
C14_Witness ==
    /\ lastNative.name = "set"
    /\ lastNative.tag = "ok"
    /\ Len(lastNative.sc0) = 2
    /\ SetName(lastNative.args) \in DOMAIN lastNative.sc0[1]
    /\ lastLookup.scopes = lastNative.sc1
    /\ lastLookup.name = SetName(lastNative.args)
    /\ lastLookup.val = IntV(9)

\* C15: every call of set and defn in the programs is written with a quoted
\* identifier as its name argument; the quoted identifier reaches the
\* builtin as its first argument, the raw name, whatever follows it in the
\* call and whether or not the name is bound.
C15_QuotedNameReachesBuiltin ==
    (lastNative.count > 0 /\ lastNative.name \in {"set", "defn"})
    => /\ lastNative.args # <<>>
       /\ lastNative.args[1].k = "Quote"
       /\ lastNative.args[1].v.k = "Identifier"

\* The Int values 0 .. k-1 in increasing order
Counting(k) == [j \in 1..k |-> IntV(j - 1)]

\* C16: loop with iteration count n binds its iteration variable to
\* 0, 1, .., n-1 in this order in the scope that is innermost at the call,
\* and runs the body once after each binding and before the next one, n
\* times in all; for n <= 0 the body does not run and nothing is bound.
C16_LoopBindsInOrder ==
    lastLoop.count > 0 =>
        LET k == Len(lastLoop.bound)
            total == IF lastLoop.n > 0 THEN lastLoop.n ELSE 0
        IN  /\ lastLoop.bound = Counting(k)
            /\ k <= total
            /\ IF lastLoop.done
               THEN lastLoop.runs = k /\ k = total
               ELSE lastLoop.runs = k - 1
            /\ (status = "running" /\ Cur.kind = "loop"
                  /\ Cur.arrays = <<<<>>>> /\ Cur.queue = Cur.body.v.v) =>
                  /\ Len(scopes) = lastLoop.depth
                  /\ scopes[Len(scopes)][Cur.qv.v.v] = IntV(Cur.i)
                  /\ Cur.i = k - 1
            /\ (lastNative.name = "loop" /\ lastNative.tag = "ok") =>
                  /\ lastLoop.n <= 0
                  /\ lastLoop.bound = <<>>
                  /\ lastNative.sc1 = lastNative.sc0

\* A loop over three iterations is over: its variable was bound to 0, 1, 2
\* and its body ran three times.
C16_Witness ==
    /\ lastLoop.done
    /\ lastLoop.n = 3
    /\ lastLoop.runs = 3
    /\ lastLoop.bound = <<IntV(0), IntV(1), IntV(2)>>

\* C17: when the body of loop fails in iteration i, the failure is
\* reported and the loop goes on: the process does not end inside the loop,
\* the iteration variable is bound for iterations i+1 .. n-1 in turn and
\* the body runs again, and the loop call returns Null.
C17_LoopContinuesAfterError ==
    lastLoop.count > 0 =>
        /\ ~lastLoop.done =>
              \/ status \in {"running", "raising", "overflow"}
              \/ fault = "Quit"
        /\ lastLoop.errs > 0 =>
              IF lastLoop.done
              THEN /\ lastLoop.runs = lastLoop.n
                   /\ lastLoop.bound = Counting(lastLoop.n)
                   /\ lastLoop.ret = Null
              ELSE /\ Len(lastLoop.bound) = lastLoop.runs + 1
                   /\ lastLoop.bound[lastLoop.runs + 1] = IntV(lastLoop.runs)

\* C18: a builtin other than quit and exit, whatever its argument Array,
\* returns a Value or an error of the taxonomy; it never ends the process.
C18_BuiltinsNeverAbort ==
    (lastNative.count > 0 /\ lastNative.name \notin {"quit", "exit"})
    => lastNative.tag \in {"ok", "raising", "iterate"}

\* The last native call is get on an Array with an Int key (quoted or not)
GetOnArray ==
    /\ lastNative.count > 0
    /\ lastNative.name = "get"
    /\ Len(lastNative.args) >= 2
    /\ lastNative.args[1].k = "Array"
    /\ LET key == lastNative.args[2]
       IN  IF key.k = "Quote" THEN key.v.k = "Int" ELSE key.k = "Int"

GetArray == lastNative.args[1].v
GetIndex ==
    LET key == lastNative.args[2]
    IN  IF key.k = "Quote" THEN key.v.v ELSE key.v

\* C19: get on an Array of length n with an Int index i >= n is an
\* ArgumentError and yields no element, also for i = n and for the empty
\* Array with i = 0.
C19_IndexBeyondLengthIsArgumentError ==
    (GetOnArray /\ GetIndex >= Len(GetArray))
    => (lastNative.tag = "raising" /\ lastNative.fault = "ArgumentError")

\* C20: get on a non-empty Array of length n with an Int index i < n
\* returns the element at position i mod n (the non-negative remainder):
\* element i for 0 <= i < n, and a negative i counts from the end.
C20_IndexWrapsModuloLength ==
    (GetOnArray /\ GetArray # <<>> /\ GetIndex < Len(GetArray))
    => /\ lastNative.tag = "ok"
       /\ lastNative.val = GetArray[(GetIndex % Len(GetArray)) + 1]

\* get on a 3-element Array with index -7 has returned the last element.
C20_Witness ==
    /\ GetOnArray
    /\ Len(GetArray) = 3
    /\ GetIndex = 0 - 7
    /\ lastNative.tag = "ok"
    /\ lastNative.val = GetArray[3]

\* The keys and the values of an argument Array of dict, as written
DictKeys(args) == [i \in 1..(Len(args) \div 2) |-> args[2 * i - 1]]
DictVals(args) == [i \in 1..(Len(args) \div 2) |-> args[2 * i]]

\* A quoted symbol or a scalar
IsSymbolOrScalar(key) ==
    \/ key.k \in {"Null", "Boolean", "Int", "Float", "String"}
    \/ key.k = "Quote" /\ key.v.k = "Identifier"

\* C21: for a dictionary built by dict from pairwise distinct keys that are
\* quoted symbols or scalars, get with key k_i returns the value v_i paired
\* with it, and len of the dictionary is the number of pairs.
C21_DictRoundTrip ==
    LET keys == DictKeys(lastNative.args)
        vals == DictVals(lastNative.args)
    IN  (/\ lastNative.name = "dict"
         /\ lastNative.tag = "ok"
         /\ \A i \in 1..Len(keys) : IsSymbolOrScalar(keys[i])
         /\ \A i, j \in 1..Len(keys) : i # j => keys[i] # keys[j])
        => /\ \A i \in 1..Len(keys) :
                 LET g == lcore_get(<<lastNative.val, keys[i]>>, scopes)
                 IN  g.tag = "ok" /\ g.val = vals[i]
           /\ lcore_len(<<lastNative.val>>, scopes) =
                 Ok(IntV(Len(keys)), scopes)

\* C22: when an Identifier token is processed and the last element of the
\* top frame is a Quote, that element is replaced by the raw Identifier:
\* the frame keeps its length, the Environment is not consulted and nothing
\* fails, bound or not.  Otherwise (empty frame, other last element) the
\* identifier is resolved and a copy of its bound value is appended.
C22_QuoteThenIdentifierReplaces ==
    [][ (status = "running" /\ Cur.queue # <<>> /\ Node0.k = "Identifier") =>
          LET v == TopFrame(Cur)
              d == Len(Cur.arrays)
          IN  IF v # <<>> /\ v[Len(v)].k = "Quote"
              THEN /\ status' = "running"
                   /\ Len(acts') = NAct
                   /\ Len(acts'[NAct].arrays) = d
                   /\ \A j \in 1..(d - 1) :
                         acts'[NAct].arrays[j] = Cur.arrays[j]
                   /\ Len(TopFrame(acts'[NAct])) = Len(v)
                   /\ TopFrame(acts'[NAct]) = [v EXCEPT ![Len(v)] = Node0]
                   /\ scopes' = scopes
                   /\ lastLookup' = lastLookup
              ELSE (\E j \in 1..Len(scopes) : Node0.v \in DOMAIN scopes[j])
                   => /\ status' = "running"
                      /\ lastLookup'.n = lastLookup.n + 1
                      /\ lastLookup'.name = Node0.v
                      /\ TopFrame(acts'[NAct]) = Append(v, lastLookup'.val)
                      /\ \E h \in 1..Len(scopes) :
                            /\ Node0.v \in DOMAIN scopes[h]
                            /\ scopes[h][Node0.v] = lastLookup'.val
      ]_vars

\* An identifier that nothing binds has taken the place of a Quote in the
\* outermost frame, and the run went on to its end.
C22_Witness ==
    /\ status = "done"
    /\ result.k = "Identifier"
    /\ ~EnvContainsKey(scopes, result.v)
    /\ lastLookup.n = 0
    /\ Len(acts[1].arrays[1]) = 1

\* The token stream an invocation was started on
OrigTokens(a) == IF a.kind = "loop" THEN a.body.v.v ELSE a.body.v

\* The tokens an invocation has consumed
Consumed(a) == SubSeq(OrigTokens(a), 1, Len(OrigTokens(a)) - Len(a.queue))

\* The number of expressions written between the OpenFunc that matches the
\* CloseFunc right after position i and that CloseFunc (the callee and the
\* arguments; a nested call is one expression), counted backwards from i
RECURSIVE ExprsBack(_, _, _)
ExprsBack(toks, i, depth) ==
    IF i = 0 THEN 0
    ELSE CASE toks[i].k = "CloseFunc" ->
                (IF depth = 0 THEN 1 ELSE 0) + ExprsBack(toks, i - 1, depth + 1)
           [] toks[i].k = "OpenFunc" ->
                IF depth = 0 THEN 0 ELSE ExprsBack(toks, i - 1, depth - 1)
           [] OTHER ->
                (IF depth = 0 THEN 1 ELSE 0) + ExprsBack(toks, i - 1, depth)

\* C23: at CloseFunc the frame holds the callable and exactly one element
\* per argument expression of the call, so the argument Array has one
\* element per argument, in particular two for (set 'x y).
C23_OneElementPerArgument ==
    (status = "running" /\ Cur.queue # <<>> /\ Node0.k = "CloseFunc")
    => Len(TopFrame(Cur)) =
          ExprsBack(OrigTokens(Cur), Len(Consumed(Cur)), 0)

\* The number of tokens of a kind in a token stream
RECURSIVE CountKind(_, _)
CountKind(toks, kind) ==
    IF toks = <<>> THEN 0
    ELSE (IF Head(toks).k = kind THEN 1 ELSE 0) + CountKind(Tail(toks), kind)

\* Every prefix has at least as many OpenFunc as CloseFunc, the whole
\* stream equally many
WellBracketed(toks) ==
    /\ \A i \in 1..Len(toks) :
          CountKind(SubSeq(toks, 1, i), "OpenFunc")
             >= CountKind(SubSeq(toks, 1, i), "CloseFunc")
    /\ CountKind(toks, "OpenFunc") = CountKind(toks, "CloseFunc")

\* C24: in every evaluator invocation the frame stack is never empty and
\* its depth is 1 plus the OpenFunc tokens consumed minus the CloseFunc
\* tokens consumed; with the queue exhausted the depth is 1.  The token
\* stream the invocation runs (the converter's output, or a body the
\* converter produced) is well bracketed.
C24_FrameDepthTracksBrackets ==
    \A i \in 1..Len(acts) :
        LET a == acts[i]
        IN  /\ Len(a.arrays) >= 1
            /\ Len(a.arrays) = 1 + CountKind(Consumed(a), "OpenFunc")
                                 - CountKind(Consumed(a), "CloseFunc")
            /\ a.queue = <<>> => Len(a.arrays) = 1
            /\ WellBracketed(OrigTokens(a))

\* Inside the body of a user-defined call, two calls are open at once.
C24_Witness ==
    /\ status = "running"
    /\ NAct >= 2
    /\ Cur.kind = "call"
    /\ Len(Cur.arrays) = 3
    /\ CountKind(Cur.queue, "CloseFunc") = 2

\* The step is the dispatch of swap
SwapStep ==
    /\ lastNative'.count = lastNative.count + 1
    /\ lastNative'.name = "swap"

\* The step returns from the body of a user-defined callable into its caller
CallReturns ==
    /\ status = "running"
    /\ Cur.kind = "call"
    /\ Cur.queue = <<>>
    /\ Len(acts') = Len(acts) - 1

\* C25: the bindings that set and defn create while the body of a
\* user-defined callable runs, and its parameter bindings, live in the scope
\* pushed for the call and are gone when the call returns.  No step other
\* than a swap changes a scope below the innermost one; the return removes
\* the scope of the call and nothing else; after it the scopes are those
\* from before the call (up to the inside of an Array or Dict, which only
\* swap changes), so every name resolves as it did before the call.
C25_CallScopeIsGone ==
    [][ /\ ~SwapStep
           => \A j \in 1..(Len(scopes) - 1) :
                 j <= Len(scopes') => scopes'[j] = scopes[j]
        /\ CallReturns
           => /\ scopes' = EnvPop(scopes)
              /\ Len(scopes') = Len(Cur.sc0)
              /\ \A j \in 1..Len(scopes') :
                    /\ DOMAIN scopes'[j] = DOMAIN Cur.sc0[j]
                    /\ \A n \in DOMAIN scopes'[j] :
                          \/ scopes'[j][n] = Cur.sc0[j][n]
                          \/ /\ Cur.sc0[j][n].k \in {"Array", "Dict"}
                             /\ scopes'[j][n].k = Cur.sc0[j][n].k
              /\ \A n \in ProbeNames :
                    EnvContainsKey(scopes', n) = EnvContainsKey(Cur.sc0, n)
      ]_vars

\* A call has returned whose body rebound, with set, the name of a
\* parameter that shadows a global binding; the name is read afterwards and
\* yields the global value.
C25_Witness ==
    /\ status = "done"
    /\ returned >= 1
    /\ lastNative.name = "set"
    /\ Len(lastNative.sc0) = 2
    /\ Holders(lastNative.sc0, SetName(lastNative.args)) = {1, 2}
    /\ Len(scopes) = 1
    /\ result = scopes[1][SetName(lastNative.args)]
    /\ result # lastNative.args[2]
    /\ result = lastNative.sc0[1][SetName(lastNative.args)]

\* The last dispatch was (swap 'name '[i] v) with name bound, in the
\* scopes it was given, to an Array of which i is an index
SwapInRange ==
    /\ lastNative.count > 0
    /\ lastNative.name = "swap"
    /\ Len(lastNative.args) = 3
    /\ lastNative.args[1].k = "Quote"
    /\ lastNative.args[1].v.k = "Identifier"
    /\ EnvContainsKey(lastNative.sc0, lastNative.args[1].v.v)
    /\ EnvGet(lastNative.sc0, lastNative.args[1].v.v).k = "Array"
    /\ lastNative.args[2].k = "Quote"
    /\ lastNative.args[2].v.k = "Array"
    /\ Len(lastNative.args[2].v.v) = 1
    /\ lastNative.args[2].v.v[1].k = "Int"
    /\ lastNative.args[2].v.v[1].v >= 0
    /\ lastNative.args[2].v.v[1].v
          < Len(EnvGet(lastNative.sc0, lastNative.args[1].v.v).v)

SwapName  == lastNative.args[1].v.v
SwapIndex == lastNative.args[2].v.v[1].v
SwapScope == SetMax(Holders(lastNative.sc0, SwapName))

\* C26: swap of a name bound to an Array of length n, with the index path
\* [i], 0 <= i < n, and a value v succeeds and changes the binding in the
\* innermost scope that holds the name: element i is v, every other
\* element, every other binding of every scope and the number of scopes
\* are as before, and the innermost scope gets no new binding.
C26_SwapMutatesInPlace ==
    SwapInRange
    => LET sc0 == lastNative.sc0
           sc1 == lastNative.sc1
           old == sc0[SwapScope][SwapName]
       IN  /\ lastNative.tag = "ok"
           /\ Len(sc1) = Len(sc0)
           /\ \A j \in 1..Len(sc0) :
                 /\ DOMAIN sc1[j] = DOMAIN sc0[j]
                 /\ \A n \in DOMAIN sc0[j] :
                       (j # SwapScope \/ n # SwapName) => sc1[j][n] = sc0[j][n]
           /\ sc1[SwapScope][SwapName].k = "Array"
           /\ Len(sc1[SwapScope][SwapName].v) = Len(old.v)
           /\ \A e \in 1..Len(old.v) :
                 sc1[SwapScope][SwapName].v[e] =
                    IF e = SwapIndex + 1 THEN lastNative.args[3] ELSE old.v[e]

\* swap, called in the body of a user-defined callable, has written an
\* Array that the global scope binds.
C26_Witness ==
    /\ SwapInRange
    /\ Len(lastNative.sc0) = 2
    /\ SwapScope = 1
    /\ SwapName \notin DOMAIN lastNative.sc1[2]
    /\ lastNative.sc1 # lastNative.sc0

\* The native callables that do not re-enter the evaluator and do not end
\* the process
NonReentrantNames == BuiltinNames \ {"loop", "quit", "exit", "import"}

\* The token stream the outermost invocation was given by the converter
TopTokens == OrigTokens(acts[1])

\* The program is converted, and every call of its top-level token stream
\* names a native callable that does not re-enter the evaluator
NativeOnlyRun ==
    /\ acts # <<>>
    /\ \A i \in 1..Len(TopTokens) :
          TopTokens[i].k = "OpenFunc"
          => /\ i < Len(TopTokens)
             /\ TopTokens[i + 1].k = "Identifier"
             /\ TopTokens[i + 1].v \in NonReentrantNames

Terminal == status \in {"done", "exit", "panic", "error", "overflow"}

====
